---- MODULE Spec2Model ----
(***************************************************************************)
(* claude-mergetool: the streaming event renderer (src/src/claude_json.rs) *)
(* as driven by MergeArgs::run (src/src/main.rs), and the dual-sink logger *)
(* (src/src/logging.rs).                                                   *)
(*                                                                         *)
(* Text is a sequence of characters; a character is a one-character        *)
(* string.  A terminal escape sequence written by owo_colors is one        *)
(* symbol of the sequence.                                                 *)
(***************************************************************************)
EXTENDS Integers, Sequences, FiniteSets, TLC

VARIABLES
    \* ClaudeEventWriter and the loop of MergeArgs::run
    temp_dirs,      \* ClaudeEventWriter.temp_dirs
    has_output,     \* ClaudeEventWriter.has_output
    pc,             \* position of MergeArgs::run
    line,           \* the item reader.lines() yielded last
    formatted,      \* RawClaudeEvent::fmt: event.display(..).to_string()
    fragment,       \* RawClaudeEvent::fmt: what it wrote to the formatter
    trace,          \* one entry per content block of the event displayed
    before,         \* has_output when the display of the line began
    rendered,       \* some block displayed so far in the run was rendered
    \* MergeLogger and the files it writes
    event_file,     \* MergeLogger.event_file: "Some" or "None"
    summary_path,   \* MergeLogger.summary_path: "Some" or "None"
    fs,             \* the log directory: the two files' contents
    env,            \* what the platform let MergeLogger::new do
    op,             \* the logger call made last
    events,         \* lines passed to log_event while the sink was open
    summaries,      \* lines log_summary appended in full
    summary0,       \* the summary file as MergeLogger::new found it
    \* one call of a function that is called apart from the run
    call,           \* the function and its arguments
    ret,            \* what it returned: None until it has
    disk            \* the configuration files

renderVars ==
    <<temp_dirs, has_output, pc, line, formatted, fragment, trace, before, rendered>>
logVars == <<event_file, summary_path, fs, env, op, events, summaries, summary0>>
callVars == <<call, ret, disk>>
vars == <<renderVars, logVars, callVars>>

----------------------------------------------------------------------------
(* Bounds of the model *)

MaxTextLen == 2      \* longest text of a text block that is no path
MaxPathLen == 5      \* longest text made of path characters
MaxBlocks == 2       \* most content blocks in one assistant event
MaxCalls == 3        \* most logger calls in one run

----------------------------------------------------------------------------
(* Characters and literals *)

NL == "\n"
SP == " "
TAB == "\t"
CR == "\r"

\* owo_colors: the escape sequences of .dimmed(), .bold() and .green()
DimOn == "\\x1b[2m"
BoldOn == "\\x1b[1m"
GreenOn == "\\x1b[32m"
GreenOff == "\\x1b[39m"
StyleOff == "\\x1b[0m"

None == [some |-> FALSE, val |-> <<>>]
Some(v) == [some |-> TRUE, val |-> v]

Placeholder == <<"$", "T", "M", "P", "D", "I", "R">>
ToolRead == <<"R", "e", "a", "d">>
ToolWrite == <<"W", "r", "i", "t", "e">>
ToolEdit == <<"E", "d", "i", "t">>
ToolBash == <<"B", "a", "s", "h">>
ToolReadLower == <<"r", "e", "a", "d">>
Prompt == <<">", SP>>
QuestionMark == <<"?">>

----------------------------------------------------------------------------
(* str operations of the standard library, as the code uses them *)

\* a faulty variant: str::trim_start(), which removes all leading white space
RECURSIVE TrimStartAll(_)
TrimStartAll(s) ==
    IF s # <<>> /\ Head(s) \in {NL, SP, TAB, CR} THEN TrimStartAll(Tail(s)) ELSE s

\* str::trim_start_matches('\n')
RECURSIVE TrimStartMatchesNL(_)
TrimStartMatchesNL(s) ==
    IF s # <<>> /\ Head(s) = NL THEN TrimStartMatchesNL(Tail(s)) ELSE s

IsPrefixAt(s, pat, i) ==
    /\ i + Len(pat) - 1 <= Len(s)
    /\ \A k \in 1..Len(pat) : s[i + k - 1] = pat[k]

\* str::replace(from, to): every non-overlapping match, left to right.
\* i: where the search for the next match starts
RECURSIVE ReplaceFrom(_, _, _, _)
ReplaceFrom(s, from, to, i) ==
    LET matches == {k \in i..Len(s) : from # <<>> /\ IsPrefixAt(s, from, k)}
    IN IF matches = {} THEN SubSeq(s, i, Len(s))
       ELSE LET k == CHOOSE m \in matches : \A n \in matches : m <= n
            IN SubSeq(s, i, k - 1) \o to \o ReplaceFrom(s, from, to, k + Len(from))

Replace(s, from, to) == ReplaceFrom(s, from, to, 1)

Contains(s, pat) == \E i \in 1..(Len(s) + 1) : IsPrefixAt(s, pat, i)

----------------------------------------------------------------------------
(* ClaudeEventWriter::new *)

\* a faulty variant: sort_by_key(|b| b.len()), shortest first
SortAscending(dirs) ==
    IF Len(dirs) = 2 /\ Len(dirs[1]) > Len(dirs[2]) THEN <<dirs[2], dirs[1]>> ELSE dirs

\* Vec::sort_by_key(|b| Reverse(b.len())): a stable sort of at most two entries
SortLongestFirst(dirs) ==
    IF Len(dirs) = 2 /\ Len(dirs[2]) > Len(dirs[1]) THEN <<dirs[2], dirs[1]>> ELSE dirs

\* raw: std::env::temp_dir(); canonical: raw.canonicalize(), None when it fails
ClaudeEventWriterNew(raw, canonical) ==
    LET pushed == IF canonical.some THEN <<canonical.val>> ELSE <<>>
        both == IF \E i \in 1..Len(pushed) : pushed[i] = raw
                THEN pushed ELSE Append(pushed, raw)
    IN SortLongestFirst(both)

----------------------------------------------------------------------------
(* One line of the subprocess's output, as JSON.                           *)
(* valid: the line is a JSON object.  An absent field is None.  Fields the *)
(* deserializer ignores are left out.                                      *)

JsonBlock(type, text, name, input, file_path) ==
    [type |-> type, text |-> text, name |-> name, input |-> input,
     file_path |-> file_path]

JsonText(t) == JsonBlock("text", Some(t), None, FALSE, None)
JsonToolUse(n, fp) == JsonBlock("tool_use", None, Some(n), TRUE, fp)

\* The fields of ClaudeSuccess the rendering reads.  complete: every field of
\* ClaudeSuccess is present with its type.  total_cost_usd and cost_usd are
\* counted in 1/10000 dollar.  modelUsage is a function from model names.
Payload(complete, duration_ms, duration_api_ms, total_cost_usd, modelUsage) ==
    [complete |-> complete, duration_ms |-> duration_ms,
     duration_api_ms |-> duration_api_ms, total_cost_usd |-> total_cost_usd,
     modelUsage |-> modelUsage]

NoPayload == Payload(FALSE, 0, 0, 0, <<>>)

JsonLine(valid, type, message, content, subtype, payload) ==
    [valid |-> valid, type |-> type, message |-> message, content |-> content,
     subtype |-> subtype, payload |-> payload]

JsonAssistant(blocks) == JsonLine(TRUE, "assistant", TRUE, Some(blocks), "none", NoPayload)
JsonResult(subtype, payload) == JsonLine(TRUE, "result", FALSE, None, subtype, payload)

----------------------------------------------------------------------------
(* serde: #[derive(Deserialize)] of ClaudeEvent and what it holds *)

\* a faulty variant: ToolUse with #[serde(default)] name
ContentBlockFromJsonDefaultName(b) ==
    CASE b.type = "text" ->
            [ok |-> b.text.some, kind |-> "Text",
             text |-> IF b.text.some THEN b.text.val ELSE <<>>,
             name |-> <<>>, file_path |-> None]
      [] b.type = "tool_use" ->
            [ok |-> TRUE, kind |-> "ToolUse", text |-> <<>>,
             name |-> IF b.name.some THEN b.name.val ELSE <<>>,
             file_path |-> IF b.input THEN b.file_path ELSE None]
      [] OTHER ->
            [ok |-> TRUE, kind |-> "Unknown", text |-> <<>>,
             name |-> <<>>, file_path |-> None]

\* ContentBlock: tag "type", snake_case, #[serde(other)] Unknown
ContentBlockFromJson(b) ==
    CASE b.type = "text" ->
            IF b.text.some
            THEN [ok |-> TRUE, kind |-> "Text", text |-> b.text.val,
                  name |-> <<>>, file_path |-> None]
            ELSE [ok |-> FALSE, kind |-> "Text", text |-> <<>>,
                  name |-> <<>>, file_path |-> None]
      [] b.type = "tool_use" ->
            IF b.name.some
            THEN [ok |-> TRUE, kind |-> "ToolUse", text |-> <<>>,
                  name |-> b.name.val,
                  \* #[serde(default)] input: ToolInput
                  file_path |-> IF b.input THEN b.file_path ELSE None]
            ELSE [ok |-> FALSE, kind |-> "ToolUse", text |-> <<>>,
                  name |-> <<>>, file_path |-> None]
      [] OTHER ->
            [ok |-> TRUE, kind |-> "Unknown", text |-> <<>>,
             name |-> <<>>, file_path |-> None]

\* AssistantMessage: #[serde(default)] content
AssistantMessageFromJson(j) ==
    LET blocks == IF j.content.some THEN j.content.val ELSE <<>>
        parsed == [i \in 1..Len(blocks) |-> ContentBlockFromJson(blocks[i])]
    IN [ok |-> j.message /\ \A i \in 1..Len(parsed) : parsed[i].ok,
        content |-> parsed]

\* ClaudeResult: tag "subtype", the one variant Success(ClaudeSuccess)
ClaudeResultFromJson(j) ==
    [ok |-> j.subtype = "success" /\ j.payload.complete, success |-> j.payload]

\* serde_json::from_str::<ClaudeEvent>: tag "type", variants assistant and result
ClaudeEventFromStr(j) ==
    CASE ~j.valid ->
            [ok |-> FALSE, kind |-> "None", content |-> <<>>, success |-> NoPayload]
      [] j.type = "assistant" ->
            LET m == AssistantMessageFromJson(j)
            IN [ok |-> m.ok, kind |-> "Assistant",
                content |-> IF m.ok THEN m.content ELSE <<>>, success |-> NoPayload]
      [] j.type = "result" ->
            LET r == ClaudeResultFromJson(j)
            IN [ok |-> r.ok, kind |-> "Result", content |-> <<>>,
                success |-> IF r.ok THEN r.success ELSE NoPayload]
      [] OTHER ->
            [ok |-> FALSE, kind |-> "None", content |-> <<>>, success |-> NoPayload]

----------------------------------------------------------------------------
(* Decimal rendering of numbers: core::fmt *)

DigitChars == <<"0", "1", "2", "3", "4", "5", "6", "7", "8", "9">>

RECURSIVE Pow10(_)
Pow10(k) == IF k = 0 THEN 1 ELSE 10 * Pow10(k - 1)

\* {} of an unsigned integer
RECURSIVE Digits(_)
Digits(n) ==
    IF n < 10 THEN <<DigitChars[n + 1]>>
    ELSE Digits(n \div 10) \o <<DigitChars[(n % 10) + 1]>>

\* the low `width` digits of n, zero-padded
RECURSIVE PadDigits(_, _)
PadDigits(n, width) ==
    IF width = 0 THEN <<>>
    ELSE PadDigits(n \div 10, width - 1) \o <<DigitChars[(n % 10) + 1]>>

Abs(n) == IF n < 0 THEN -n ELSE n

\* the first `places` decimal digits of r/den, r < den, by long division:
\* the digits as a number, and the remainder left
RECURSIVE Fraction(_, _, _)
Fraction(r, den, places) ==
    IF places = 0 THEN [digits |-> 0, rem |-> r]
    ELSE LET f == Fraction(r, den, places - 1)
         IN [digits |-> f.digits * 10 + ((f.rem * 10) \div den),
             rem |-> (f.rem * 10) % den]

RECURSIVE Pow2(_)
Pow2(k) == IF k = 0 THEN 1 ELSE 2 * Pow2(k - 1)

\* the integer part of the binary logarithm of n, n >= 1
RECURSIVE Log2(_)
Log2(n) == IF n < 2 THEN 0 ELSE 1 + Log2(n \div 2)

\* the least j with num * 2^j >= den, num > 0
RECURSIVE ShiftsToReach(_, _)
ShiftsToReach(num, den) == IF num >= den THEN 0 ELSE 1 + ShiftsToReach(2 * num, den)

\* (r * 2^k) mod den
RECURSIVE ShiftMod(_, _, _)
ShiftMod(r, den, k) == IF k = 0 THEN r ELSE ShiftMod((2 * r) % den, den, k - 1)

\* the integer part of r * 2^k / den, r < den, and the remainder left
RECURSIVE BinaryDiv(_, _, _)
BinaryDiv(r, den, k) ==
    IF k = 0 THEN [q |-> 0, rem |-> r]
    ELSE LET d == BinaryDiv(r, den, k - 1)
         IN [q |-> 2 * d.q + ((2 * d.rem) \div den), rem |-> (2 * d.rem) % den]

\* q + rem/den rounded to the nearest integer, a tie going to the even one
RoundHalfEven(q, rem, den) ==
    IF 2 * rem > den \/ (2 * rem = den /\ q % 2 = 1) THEN q + 1 ELSE q

\* The f64 nearest num/den (num, den > 0: one division of f64, correctly
\* rounded to 53 bits): 1 when it is above num/den, -1 when below, 0 when
\* num/den is an f64.
Float64Side(num, den) ==
    LET k == IF num >= den THEN 52 - Log2(num \div den)
             ELSE 52 + ShiftsToReach(num, den)
        r == ShiftMod(num % den, den, k)
        odd == 2 * ShiftMod(num % den, den, k - 1) >= den
    IN IF r = 0 THEN 0
       ELSE IF 2 * r < den THEN -1
       ELSE IF 2 * r > den THEN 1
       ELSE IF odd THEN 1 ELSE -1

\* {:.places} of the f64 nearest num/den, den > 0: the decimal expansion of
\* the f64 rounded to that many places, a tie going to the even digit.  The
\* f64 is on the side of a rounding boundary that num/den is on; when num/den
\* is on the boundary itself, Float64Side tells the side.
FormatFixed(num, den, places) ==
    LET f == Fraction(Abs(num) % den, den, places)
        q == (Abs(num) \div den) * Pow10(places) + f.digits
        up == IF 2 * f.rem # den THEN 2 * f.rem > den
              ELSE LET side == Float64Side(Abs(num), den)
                   IN side = 1 \/ (side = 0 /\ q % 2 = 1)
        rounded == IF up THEN q + 1 ELSE q
    IN (IF num < 0 THEN <<"-">> ELSE <<>>)
       \o Digits(rounded \div Pow10(places))
       \o (IF places = 0 THEN <<>>
           ELSE <<".">> \o PadDigits(rounded % Pow10(places), places))

\* Duration::as_secs_f32 of whole milliseconds, ms >= 1000:
\* (secs as f32) + (nanos as f32) / (1e9 as f32), each operation rounded to
\* the 24 bits of f32.  The f32 is m / 2^s.
AsSecsF32(ms) ==
    LET secs == ms \div 1000
        millis == ms % 1000
        j == ShiftsToReach(millis, 1000)
        d == BinaryDiv(millis, 1000, 23 + j)
        \* the quotient is quot / 2^(23 + j)
        quot == RoundHalfEven(d.q, d.rem, 1000)
        s == 23 - Log2(secs)
        dropped == Pow2(23 + j - s)
    IN IF millis = 0 THEN [m |-> secs * Pow2(s), s |-> s]
       ELSE [m |-> secs * Pow2(s)
                   + RoundHalfEven(quot \div dropped, quot % dropped, dropped),
             s |-> s]

\* {:.places} of the f32 x.m / 2^x.s
FormatF32(x, places) ==
    LET scaled == x.m * Pow10(places)
        rounded == RoundHalfEven(scaled \div Pow2(x.s), scaled % Pow2(x.s), Pow2(x.s))
    IN Digits(rounded \div Pow10(places))
       \o <<".">> \o PadDigits(rounded % Pow10(places), places)

----------------------------------------------------------------------------
(* Dollars, Tokens, HumanTime *)

\* Dollars(num/den): den = 0 is a division by zero of f64, infinite or NaN
Dollars(num, den) ==
    IF den = 0
    THEN IF num > 0 THEN <<"$", "i", "n", "f", "k">>
         ELSE IF num < 0 THEN <<"$", "-", "i", "n", "f">>
         ELSE <<"$", "N", "a", "N", "k">>
    ELSE IF num < 1000 * den
         THEN <<"$">> \o FormatFixed(num, den, 4)
         ELSE <<"$">> \o FormatFixed(num, den * 1000, 1) \o <<"k">>

\* a faulty variant: the thresholds are compared with <=
TokensInclusive(tokens) ==
    IF tokens <= 1000 THEN Digits(tokens)
    ELSE IF tokens <= 1000000 THEN FormatFixed(tokens, 1000, 1) \o <<"k">>
    ELSE FormatFixed(tokens, 1000000, 3) \o <<"m">>

Tokens(tokens) ==
    IF tokens < 1000 THEN Digits(tokens)
    ELSE IF tokens < 1000000 THEN FormatFixed(tokens, 1000, 1) \o <<"k">>
    ELSE FormatFixed(tokens, 1000000, 3) \o <<"m">>

\* humantime::format_duration of whole milliseconds
FormatDuration(ms) ==
    LET secs == ms \div 1000
        years == secs \div 31557600
        ydays == secs % 31557600
        months == ydays \div 2630016
        mdays == ydays % 2630016
        days == mdays \div 86400
        dsecs == mdays % 86400
        hours == dsecs \div 3600
        minutes == (dsecs % 3600) \div 60
        seconds == dsecs % 60
        millis == ms % 1000
        Item(n, unit) == IF n = 0 THEN <<>> ELSE <<Digits(n) \o unit>>
        items == Item(years, <<"y", "e", "a", "r">> \o (IF years > 1 THEN <<"s">> ELSE <<>>))
                 \o Item(months, <<"m", "o", "n", "t", "h">> \o (IF months > 1 THEN <<"s">> ELSE <<>>))
                 \o Item(days, <<"d", "a", "y">> \o (IF days > 1 THEN <<"s">> ELSE <<>>))
                 \o Item(hours, <<"h">>) \o Item(minutes, <<"m">>)
                 \o Item(seconds, <<"s">>) \o Item(millis, <<"m", "s">>)
        Join[i \in 0..Len(items)] ==
            IF i = 0 THEN <<>>
            ELSE IF i = 1 THEN items[1] ELSE Join[i - 1] \o <<SP>> \o items[i]
    IN IF ms = 0 THEN <<"0", "s">> ELSE Join[Len(items)]

\* a faulty variant: the thresholds are compared with <=
HumanTimeInclusive(ms) ==
    IF ms <= 1000 THEN Digits(ms) \o <<"m", "s">>
    ELSE IF ms <= 60000 THEN FormatF32(AsSecsF32(ms), 2) \o <<"s">>
    ELSE FormatDuration(ms)

HumanTime(ms) ==
    IF ms < 1000 THEN Digits(ms) \o <<"m", "s">>
    ELSE IF ms < 60000 THEN FormatF32(AsSecsF32(ms), 2) \o <<"s">>
    ELSE FormatDuration(ms)

----------------------------------------------------------------------------
(* owo_colors and termimad *)

Dimmed(s) == <<DimOn>> \o s \o <<StyleOff>>

\* .green().bold(): BoldDisplay around FgColorDisplay
GreenBold(s) == <<BoldOn, GreenOn>> \o s \o <<GreenOff, StyleOff>>

\* termimad::term_text(text), displayed: the characters of the model carry no
\* markdown markup, and the rendered text ends its last line
TermText(text) == text \o <<NL>>

----------------------------------------------------------------------------
(* Display of ClaudeModelUsage and ClaudeSuccess *)

ModelUsage(input_tokens, output_tokens, cache_read, cache_creation, cost_usd) ==
    [input_tokens |-> input_tokens, output_tokens |-> output_tokens,
     cache_read_input_tokens |-> cache_read,
     cache_creation_input_tokens |-> cache_creation, cost_usd |-> cost_usd]

ClaudeModelUsageFmt(u) ==
    Tokens(u.input_tokens) \o <<SP, "i", "n", "p", "u", "t", ",", SP>>
    \o Tokens(u.output_tokens) \o <<SP, "o", "u", "t", "p", "u", "t", ",", SP>>
    \o Tokens(u.cache_read_input_tokens) \o <<SP, "c", "a", "c", "h", "e", SP, "r", "e", "a", "d", ",", SP>>
    \o Tokens(u.cache_creation_input_tokens) \o <<SP, "c", "a", "c", "h", "e", SP, "w", "r", "i", "t", "e", SP, "(">>
    \o Dollars(u.cost_usd, 10000) \o <<")">>

\* order: the order in which the HashMap model_usage yields its keys
ClaudeSuccessFmt(success, order) ==
    LET head == <<"F", "i", "n", "i", "s", "h", "e", "d", SP, "i", "n", SP>> \o HumanTime(success.duration_ms)
                \o <<SP, "(">> \o HumanTime(success.duration_api_ms)
                \o <<SP, "A", "P", "I", SP, "t", "i", "m", "e", ")", ".", SP, "T", "o", "t", "a", "l", SP, "c", "o", "s", "t", ":", SP>>
                \o Dollars(success.total_cost_usd, 10000)
                \o <<SP, "(", "S", "a", "l", "a", "r", "y", ":", SP>>
                \o Dollars(success.total_cost_usd * 720000, success.duration_ms)
                \o <<"/", "y", "r", ")">>
        Usage[i \in 0..Len(order)] ==
            IF i = 0 THEN <<>>
            ELSE Usage[i - 1]
                 \o Dimmed(<<NL, SP, SP, SP, SP>> \o order[i] \o <<":", SP>>
                           \o ClaudeModelUsageFmt(success.modelUsage[order[i]]))
    IN GreenBold(head)
       \o (IF order = <<>> THEN <<>>
           ELSE Dimmed(<<NL, "U", "s", "a", "g", "e", SP, "b", "y", SP, "m", "o", "d", "e", "l", ":">>) \o Usage[Len(order)])

\* the orders a HashMap with these keys may be iterated in
IterationOrders(map) ==
    LET keys == DOMAIN map
    IN IF map = <<>> THEN {<<>>}
       ELSE {o \in [1..Cardinality(keys) -> keys] :
                \A i, j \in 1..Cardinality(keys) : i # j => o[i] # o[j]}

----------------------------------------------------------------------------
(* ClaudeEventDisplay::fmt.  acc: the text written so far, has_output, and *)
(* one trace entry per block: the block, has_output before it, and the     *)
(* text handed to termimad::term_text, if any.                             *)

\* a faulty variant: the path is written for every tool name
ToolUseLineWithPath(name, file_path) ==
    Dimmed(Prompt \o name \o <<SP>> \o (IF file_path.some THEN file_path.val ELSE QuestionMark))

ToolUseLine(name, file_path) ==
    IF name \in {ToolRead, ToolWrite, ToolEdit}
    THEN Dimmed(Prompt \o name \o <<SP>>
                \o (IF file_path.some THEN file_path.val ELSE QuestionMark))
    ELSE Prompt \o name

TextToRender(text, has_out) ==
    IF has_out THEN text ELSE TrimStartMatchesNL(text)

FmtBlock(block, acc) ==
    CASE block.kind = "Text" ->
            LET text == TextToRender(block.text, acc.has_output)
            IN IF text # <<>>
               THEN [out |-> acc.out \o TermText(text), has_output |-> TRUE,
                     trace |-> Append(acc.trace,
                        [block |-> block, before |-> acc.has_output,
                         handed |-> Some(text),
                         wrote |-> TermText(text), after |-> TRUE])]
               ELSE [out |-> acc.out, has_output |-> acc.has_output,
                     trace |-> Append(acc.trace,
                        [block |-> block, before |-> acc.has_output,
                         handed |-> None,
                         wrote |-> <<>>, after |-> acc.has_output])]
      [] block.kind = "ToolUse" ->
            LET wrote == ToolUseLine(block.name, block.file_path) \o <<NL>>
            IN [out |-> acc.out \o wrote, has_output |-> TRUE,
                trace |-> Append(acc.trace,
                        [block |-> block, before |-> acc.has_output,
                         handed |-> None, wrote |-> wrote, after |-> TRUE])]
      [] OTHER ->
            [out |-> acc.out, has_output |-> acc.has_output,
             trace |-> Append(acc.trace,
                        [block |-> block, before |-> acc.has_output,
                         handed |-> None, wrote |-> <<>>,
                         after |-> acc.has_output])]

RECURSIVE FmtBlocks(_, _)
FmtBlocks(blocks, acc) ==
    IF blocks = <<>> THEN acc
    ELSE FmtBlocks(Tail(blocks), FmtBlock(Head(blocks), acc))

\* a faulty variant: a successful result does not store has_output
ClaudeEventDisplayFmtResultUnmarked(event, has_out, order) ==
    IF event.kind = "Assistant"
    THEN FmtBlocks(event.content, [out |-> <<>>, has_output |-> has_out, trace |-> <<>>])
    ELSE [out |-> ClaudeSuccessFmt(event.success, order) \o <<NL>>,
          has_output |-> has_out, trace |-> <<>>]

ClaudeEventDisplayFmt(event, has_out, order) ==
    IF event.kind = "Assistant"
    THEN FmtBlocks(event.content, [out |-> <<>>, has_output |-> has_out, trace |-> <<>>])
    ELSE [out |-> ClaudeSuccessFmt(event.success, order) \o <<NL>>,
          has_output |-> TRUE, trace |-> <<>>]

----------------------------------------------------------------------------
(* RawClaudeEvent::fmt *)

\* temp_dirs.iter().fold(formatted, |s, dir| s.replace(dir, "$TMPDIR"))
RECURSIVE Redact(_, _)
Redact(s, dirs) ==
    IF dirs = <<>> THEN s
    ELSE Redact(Replace(s, Head(dirs), Placeholder), Tail(dirs))

RawClaudeEventFmt(json, dirs, has_out, order) ==
    LET event == ClaudeEventFromStr(json)
    IN IF event.ok
       THEN LET d == ClaudeEventDisplayFmt(event, has_out, order)
            IN [parsed |-> TRUE, formatted |-> d.out,
                fragment |-> Redact(d.out, dirs),
                has_output |-> d.has_output, trace |-> d.trace]
       ELSE [parsed |-> FALSE, formatted |-> <<>>, fragment |-> <<>>,
             has_output |-> has_out, trace |-> <<>>]

----------------------------------------------------------------------------
(* The input of a run *)

SeqsUpTo(S, n) == UNION {[1..k -> S] : k \in 0..n}

TextChars == {NL, SP, TAB, CR, "a"}
PathChars == {"/", "t", "s"}
Texts == SeqsUpTo(TextChars, MaxTextLen)
Paths == SeqsUpTo(PathChars, MaxPathLen)

\* std::env::temp_dir() and its canonical form: absolute paths
RawDirs == {<<"/", "t">>, <<"/", "t", "/">>, <<"/", "s", "/", "t">>}
CanonicalDirs == {<<"/", "t">>, <<"/", "t", "/", "s">>, <<"/", "s", "/", "t">>}

ToolNames == {ToolRead, ToolWrite, ToolEdit, ToolBash, ToolReadLower}
FewPaths == {<<"/", "t", "/", "s">>, <<"/", "t", "/", "s", "/", "f">>}

Blocks ==
    {JsonText(t) : t \in Texts \cup Paths}
    \cup {JsonToolUse(ToolRead, Some(p)) : p \in Paths}
    \cup {JsonToolUse(n, Some(p)) : n \in ToolNames, p \in FewPaths}
    \cup {JsonToolUse(n, None) : n \in ToolNames}
    \cup {JsonBlock("tool_use", None, Some(n), FALSE, None) : n \in {ToolEdit, ToolBash}}
    \cup {JsonBlock("thinking", None, None, FALSE, None),
          JsonBlock("text", None, None, FALSE, None),
          JsonBlock("tool_use", None, None, TRUE, Some(<<"/", "t">>))}

FewBlocks ==
    {JsonText(<<>>), JsonText(<<NL>>), JsonText(<<NL, NL, "a">>), JsonText(<<"a">>),
     JsonToolUse(ToolRead, Some(<<"/", "t", "/", "s">>)), JsonToolUse(ToolBash, None),
     JsonBlock("thinking", None, None, FALSE, None)}

ModelNames == {<<"o">>, <<"h">>}

Payloads ==
    {Payload(TRUE, 100, 90, 100, <<>>),
     Payload(TRUE, 0, 0, 0, <<>>),
     Payload(TRUE, 61500, 1500, 1234,
             [m \in ModelNames |->
                IF m = <<"o">> THEN ModelUsage(12, 3400, 1200000, 0, 1200)
                ELSE ModelUsage(999, 0, 0, 0, 34)])}

JsonLines ==
    {JsonAssistant(<<b>>) : b \in Blocks}
    \cup {JsonAssistant(bs) : bs \in UNION {[1..k -> FewBlocks] : k \in 2..MaxBlocks}}
    \cup {JsonAssistant(<<>>),
          JsonLine(TRUE, "assistant", TRUE, None, "none", NoPayload),
          JsonLine(TRUE, "assistant", FALSE, None, "none", NoPayload),
          JsonLine(FALSE, "none", FALSE, None, "none", NoPayload),
          JsonLine(TRUE, "none", TRUE, Some(<<JsonText(<<"a">>)>>), "none", NoPayload),
          JsonLine(TRUE, "system", TRUE, Some(<<JsonText(<<"a">>)>>), "success",
                   Payload(TRUE, 100, 90, 100, <<>>))}
    \cup {JsonResult("success", pl) : pl \in Payloads}
    \cup {JsonResult("error_max_turns", Payload(TRUE, 100, 90, 100, <<>>)),
          JsonResult("none", Payload(TRUE, 100, 90, 100, <<>>)),
          JsonResult("success", NoPayload)}

NoJson == JsonLine(FALSE, "none", FALSE, None, "none", NoPayload)
NoLine == [io |-> "None", json |-> NoJson]

----------------------------------------------------------------------------
(* MergeLogger.  A file is None while it does not exist, else its content. *)

\* what the platform lets MergeLogger::new do
\* dir: "ok", "unresolved" (dirs::state_dir() is None), "uncreatable"
\* (fs::create_dir_all fails); create: File::create of the event log succeeds
Envs == [dir : {"ok", "unresolved", "uncreatable"}, create : BOOLEAN]

NoFiles == [event |-> None, summary |-> None]

log_dir(e) == e.dir = "ok"

\* a faulty variant: summary_path is set although there is no log directory
MergeLoggerNewKeepsSummary(e, files) ==
    IF ~log_dir(e)
    THEN [event_file |-> "None", summary_path |-> "Some", fs |-> files]
    ELSE IF e.create
    THEN [event_file |-> "Some", summary_path |-> "Some",
          fs |-> [files EXCEPT !.event = Some(<<>>)]]
    ELSE [event_file |-> "None", summary_path |-> "Some", fs |-> files]

\* a faulty variant: without an event file there is no summary_path either
MergeLoggerNewAllOrNothing(e, files) ==
    IF log_dir(e) /\ e.create
    THEN [event_file |-> "Some", summary_path |-> "Some",
          fs |-> [files EXCEPT !.event = Some(<<>>)]]
    ELSE [event_file |-> "None", summary_path |-> "None", fs |-> files]

MergeLoggerNew(e, files) ==
    IF ~log_dir(e)
    THEN [event_file |-> "None", summary_path |-> "None", fs |-> files]
    ELSE IF e.create
    THEN [event_file |-> "Some", summary_path |-> "Some",
          fs |-> [files EXCEPT !.event = Some(<<>>)]]
    ELSE [event_file |-> "None", summary_path |-> "Some", fs |-> files]

\* a faulty variant: write! in place of writeln!
WritelnNoNewline(l) == l

\* writeln!(f, "{line}"): the bytes it hands to the file
Writeln(l) == l \o <<NL>>

Content(file) == IF file.some THEN file.val ELSE <<>>

\* a write that fails may have written any proper prefix of its bytes
Prefixes(data) == {SubSeq(data, 1, k) : k \in 0..(Len(data) - 1)}

Called(name, l, result) == [name |-> name, line |-> l, result |-> result, n |-> op.n + 1]

\* if let Some(f) = &mut self.event_file, and writeln! is Ok
log_event_write_ok(l) ==
    /\ event_file = "Some"
    /\ fs' = [fs EXCEPT !.event = Some(Content(fs.event) \o Writeln(l))]
    /\ op' = Called("log_event", l, "ok")
    /\ UNCHANGED event_file

\* a faulty variant: the failed write does not clear event_file
log_event_write_failed_stays_open(l) ==
    /\ event_file = "Some"
    /\ \E written \in Prefixes(Writeln(l)) :
          fs' = [fs EXCEPT !.event = Some(Content(fs.event) \o written)]
    /\ op' = Called("log_event", l, "write failed")
    /\ UNCHANGED event_file

\* writeln! is Err(e): self.event_file = None
log_event_write_failed(l) ==
    /\ event_file = "Some"
    /\ \E written \in Prefixes(Writeln(l)) :
          fs' = [fs EXCEPT !.event = Some(Content(fs.event) \o written)]
    /\ event_file' = "None"
    /\ op' = Called("log_event", l, "write failed")

\* self.event_file is None
log_event_disabled(l) ==
    /\ event_file = "None"
    /\ op' = Called("log_event", l, "disabled")
    /\ UNCHANGED <<fs, event_file>>

log_event(l) ==
    /\ op.n < MaxCalls
    /\ \/ log_event_write_ok(l)
       \/ log_event_write_failed(l)
       \/ log_event_disabled(l)
    /\ events' = Append(events, l)
    /\ UNCHANGED <<summary_path, env, summaries, summary0>>

\* a faulty variant: the file is opened without append(true)
log_summary_write_ok_truncating(l) ==
    /\ summary_path = "Some"
    /\ fs' = [fs EXCEPT !.summary = Some(Writeln(l))]
    /\ summaries' = Append(summaries, l)
    /\ op' = Called("log_summary", l, "ok")
    /\ UNCHANGED summary_path

\* OpenOptions::new().create(true).append(true).open(path) and writeln! are Ok
log_summary_write_ok(l) ==
    /\ summary_path = "Some"
    /\ fs' = [fs EXCEPT !.summary = Some(Content(fs.summary) \o Writeln(l))]
    /\ summaries' = Append(summaries, l)
    /\ op' = Called("log_summary", l, "ok")
    /\ UNCHANGED summary_path

\* the open is Ok (the file exists from then on), writeln! is Err(e)
log_summary_write_failed(l) ==
    /\ summary_path = "Some"
    /\ \E written \in Prefixes(Writeln(l)) :
          fs' = [fs EXCEPT !.summary = Some(Content(fs.summary) \o written)]
    /\ op' = Called("log_summary", l, "write failed")
    /\ UNCHANGED <<summaries, summary_path>>

\* a faulty variant: a failed open clears summary_path
log_summary_open_failed_disables(l) ==
    /\ summary_path = "Some"
    /\ summary_path' = "None"
    /\ op' = Called("log_summary", l, "open failed")
    /\ UNCHANGED <<fs, summaries>>

\* the open is Err(e)
log_summary_open_failed(l) ==
    /\ summary_path = "Some"
    /\ op' = Called("log_summary", l, "open failed")
    /\ UNCHANGED <<fs, summaries, summary_path>>

\* self.summary_path is None
log_summary_disabled(l) ==
    /\ summary_path = "None"
    /\ op' = Called("log_summary", l, "disabled")
    /\ UNCHANGED <<fs, summaries, summary_path>>

log_summary(l) ==
    /\ op.n < MaxCalls
    /\ \/ log_summary_write_ok(l)
       \/ log_summary_write_failed(l)
       \/ log_summary_open_failed(l)
       \/ log_summary_disabled(l)
    /\ UNCHANGED <<event_file, env, events, summary0>>

\* the lines handed to the logger: reader.lines() yields no line terminator
LogLines == {<<>>, <<"a">>, <<"b", "a">>}
Summary0s == {None, Some(<<>>), Some(<<"z", NL>>)}

----------------------------------------------------------------------------
(* The history of a run: whether a block displayed so far was rendered.    *)
(* seen: whether one was before this block.                                *)

BlockRendered(b, seen) ==
    \/ b.kind = "ToolUse"
    \/ /\ b.kind = "Text"
       /\ IF seen THEN b.text # <<>>
          ELSE \E i \in 1..Len(b.text) : b.text[i] # NL

RECURSIVE AnyRendered(_, _)
AnyRendered(blocks, seen) ==
    IF blocks = <<>> THEN seen
    ELSE AnyRendered(Tail(blocks), seen \/ BlockRendered(Head(blocks), seen))

EventRendered(event, seen) ==
    IF ~event.ok THEN seen
    ELSE IF event.kind = "Result" THEN TRUE
    ELSE AnyRendered(event.content, seen)

----------------------------------------------------------------------------
(* No function is called apart from the run *)

NoCall == [fn |-> "none"]
NoDisk == <<>>

InitNoCall ==
    /\ call = NoCall
    /\ ret = None
    /\ disk = NoDisk

----------------------------------------------------------------------------
(* MergeArgs::run: the loop over reader.lines().                           *)
(* pc: "lines" at reader.lines().next(), "match" with the item in hand,     *)
(* "written" once the line's arm has run, "wait" at child.wait_checked(),   *)
(* "done" and "failed" once run has returned Ok or Err.                     *)

InitWriter ==
    /\ \E raw \in RawDirs, canonical \in {None} \cup {Some(c) : c \in CanonicalDirs} :
          temp_dirs = ClaudeEventWriterNew(raw, canonical)
    /\ has_output = FALSE
    /\ pc = "lines"
    /\ line = NoLine
    /\ formatted = <<>>
    /\ fragment = <<>>
    /\ trace = <<>>
    /\ before = FALSE
    /\ rendered = FALSE

\* run constructs no MergeLogger
InitNoLogger ==
    /\ event_file = "None"
    /\ summary_path = "None"
    /\ fs = NoFiles
    /\ env = [dir |-> "unresolved", create |-> FALSE]
    /\ op = [name |-> "none", line |-> <<>>, result |-> "none", n |-> 0]
    /\ events = <<>>
    /\ summaries = <<>>
    /\ summary0 = None

Init == InitWriter /\ InitNoLogger /\ InitNoCall

\* reader.lines().next() yields Some(Ok(line))
NextLineOk ==
    /\ pc = "lines"
    /\ \E j \in JsonLines : line' = [io |-> "Ok", json |-> j]
    /\ pc' = "match"
    /\ UNCHANGED <<temp_dirs, has_output, formatted, fragment, trace, before, rendered, logVars, callVars>>

\* reader.lines().next() yields Some(Err(err))
NextLineErr ==
    /\ pc = "lines"
    /\ line' = [io |-> "Err", json |-> NoJson]
    /\ pc' = "match"
    /\ UNCHANGED <<temp_dirs, has_output, formatted, fragment, trace, before, rendered, logVars, callVars>>

\* reader.lines().next() yields None: the pipe is closed
EndOfLines ==
    /\ pc = "lines"
    /\ pc' = "wait"
    /\ UNCHANGED <<temp_dirs, has_output, line, formatted, fragment, trace, before, rendered, logVars, callVars>>

\* Ok(line) => write!(std::io::stderr().lock(), "{}", writer.display(&line))
\* stderr_ok: whether the write to standard error succeeds
Display(stderr_ok) ==
    /\ pc = "match"
    /\ line.io = "Ok"
    /\ \E order \in IterationOrders(line.json.payload.modelUsage) :
          LET d == RawClaudeEventFmt(line.json, temp_dirs, has_output, order)
          IN /\ formatted' = d.formatted
             /\ fragment' = d.fragment
             /\ has_output' = d.has_output
             /\ trace' = d.trace
    \* writing no bytes cannot fail
    /\ ~stderr_ok => fragment' # <<>>
    /\ before' = has_output
    /\ rendered' = EventRendered(ClaudeEventFromStr(line.json), rendered)
    /\ pc' = IF stderr_ok THEN "written" ELSE "failed"
    /\ UNCHANGED <<temp_dirs, line, logVars, callVars>>

DisplayOk == Display(TRUE)

DisplayStderrFailed == Display(FALSE)

\* a faulty variant: Err(err) => return Err(err)
SkipLineErrPropagates ==
    /\ pc = "match"
    /\ line.io = "Err"
    /\ pc' = "failed"
    /\ UNCHANGED <<temp_dirs, has_output, line, formatted, fragment, trace, before, rendered, logVars, callVars>>

\* Err(err) => tracing::debug!("{err}")
SkipLineErr ==
    /\ pc = "match"
    /\ line.io = "Err"
    /\ pc' = "written"
    /\ UNCHANGED <<temp_dirs, has_output, line, formatted, fragment, trace, before, rendered, logVars, callVars>>

\* the end of the loop body: the line and the rendered text are dropped
EndOfArm ==
    /\ pc = "written"
    /\ pc' = "lines"
    /\ line' = NoLine
    /\ formatted' = <<>>
    /\ fragment' = <<>>
    /\ trace' = <<>>
    /\ before' = FALSE
    /\ UNCHANGED <<temp_dirs, has_output, rendered, logVars, callVars>>

\* child.wait_checked()?
WaitChecked ==
    /\ pc = "wait"
    /\ pc' \in {"done", "failed"}
    /\ UNCHANGED <<temp_dirs, has_output, line, formatted, fragment, trace, before, rendered, logVars, callVars>>

Next ==
    \/ NextLineOk
    \/ NextLineErr
    \/ EndOfLines
    \/ DisplayOk
    \/ DisplayStderrFailed
    \/ SkipLineErr
    \/ EndOfArm
    \/ WaitChecked

Spec == Init /\ [][Next]_vars

----------------------------------------------------------------------------
(* The logger on its own: MergeLogger::new, then any calls *)

\* a summary file of an earlier run exists only in a log directory that exists
InitLogger ==
    /\ env \in Envs
    /\ summary0 \in IF log_dir(env) THEN Summary0s ELSE {None}
    /\ LET new == MergeLoggerNew(env, [event |-> None, summary |-> summary0])
       IN /\ event_file = new.event_file
          /\ summary_path = new.summary_path
          /\ fs = new.fs
    /\ op = [name |-> "new", line |-> <<>>, result |-> "ok", n |-> 0]
    /\ events = <<>>
    /\ summaries = <<>>

InitNoWriter ==
    /\ temp_dirs = <<>>
    /\ has_output = FALSE
    /\ pc = "none"
    /\ line = NoLine
    /\ formatted = <<>>
    /\ fragment = <<>>
    /\ trace = <<>>
    /\ before = FALSE
    /\ rendered = FALSE

InitLog == InitLogger /\ InitNoWriter /\ InitNoCall

LogEvent == \E l \in LogLines : log_event(l) /\ UNCHANGED <<renderVars, callVars>>

LogSummary == \E l \in LogLines : log_summary(l) /\ UNCHANGED <<renderVars, callVars>>

NextLog == LogEvent \/ LogSummary

SpecLog == InitLog /\ [][NextLog]_vars

----------------------------------------------------------------------------
(* Tokens, Dollars and HumanTime on their own: one quantity is drawn and    *)
(* formatted.  An amount of dollars is the f64 nearest num/den.             *)

Near == 1050      \* how far around a threshold the quantities are drawn

Around(c) == {n \in (c - Near)..(c + Near) : n >= 0}

\* around the thresholds, one count in every 1950 up to two million (every
\* other one halfway between two tenths of a thousand), and large counts
TokenCounts ==
    Around(0) \cup Around(1000) \cup Around(1000000)
    \cup {1950 * k + 50 : k \in 0..Near}
    \cup {20500500, 123456789, 2000000000}

Amount(num, den) == [num |-> num, den |-> den]

\* in 1/10000 dollar around 0 and around 1000 dollars, in 1/100000 dollar
\* just below and above 1000 dollars
Amounts ==
    {Amount(n, 10000) : n \in (0 - Near)..Near}
    \cup {Amount(n, 10000) : n \in Around(10000000)}
    \cup {Amount(n, 100000) : n \in 99999980..100000020}
    \cup {Amount(10000000 + 250000 * k, 10000) : k \in 0..40}
    \cup {Amount(123456789, 10000), Amount(2000000000, 10000),
          Amount(-123456789, 10000)}

\* whole milliseconds: deserialize_millis
Durations ==
    0..(60000 + Near)
    \cup {3600000, 3661001, 86400000, 90061001, 172800000, 2000000000}

Calls(fn, args) == {[fn |-> fn, arg |-> a] : a \in args}

InitFormat ==
    /\ call \in Calls("Tokens", TokenCounts) \cup Calls("Dollars", Amounts)
                \cup Calls("HumanTime", Durations)
    /\ ret = None
    /\ disk = NoDisk

InitFmt == InitFormat /\ InitNoWriter /\ InitNoLogger

FormatTokens ==
    /\ call.fn = "Tokens"
    /\ ~ret.some
    /\ ret' = Some(Tokens(call.arg))
    /\ UNCHANGED <<call, disk, renderVars, logVars>>

FormatDollars ==
    /\ call.fn = "Dollars"
    /\ ~ret.some
    /\ ret' = Some(Dollars(call.arg.num, call.arg.den))
    /\ UNCHANGED <<call, disk, renderVars, logVars>>

FormatHumanTime ==
    /\ call.fn = "HumanTime"
    /\ ~ret.some
    /\ ret' = Some(HumanTime(call.arg))
    /\ UNCHANGED <<call, disk, renderVars, logVars>>

NextFmt == FormatTokens \/ FormatDollars \/ FormatHumanTime

SpecFmt == InitFmt /\ [][NextFmt]_vars

----------------------------------------------------------------------------
(* sanitize_filepath and the name MergeLogger::new gives the event log *)

MaxLabelLen == 3     \* longest label handed to MergeLogger::new

Backslash == "\\"
Underscore == "_"
Unknown == <<"u", "n", "k", "n", "o", "w", "n">>
Jsonl == <<".", "j", "s", "o", "n", "l">>

\* a faulty variant: a space is left as it is
sanitize_filepath_keeps_spaces(s) ==
    [i \in 1..Len(s) |-> IF s[i] \in {"/", Backslash} THEN Underscore ELSE s[i]]

sanitize_filepath(s) ==
    [i \in 1..Len(s) |-> IF s[i] \in {"/", Backslash, SP} THEN Underscore ELSE s[i]]

\* format!("{}_{}.jsonl", format_timestamp(), sanitized)
filename(timestamp, filepath) ==
    timestamp \o <<Underscore>>
    \o (IF filepath.some THEN sanitize_filepath(filepath.val) ELSE Unknown)
    \o Jsonl

LabelChars == {"/", Backslash, SP, Underscore, "a", "."}
Labels == SeqsUpTo(LabelChars, MaxLabelLen)

\* format_timestamp(): strftime("%Y-%m-%dT%H-%M-%S")
Timestamps ==
    {<<"2", "0", "2", "6", "-", "0", "1", "-", "0", "2", "T",
       "0", "3", "-", "0", "4", "-", "0", "5">>,
     <<"1", "9", "9", "9", "-", "1", "2", "-", "3", "1", "T",
       "2", "3", "-", "5", "9", "-", "5", "9">>}

InitLabel ==
    /\ call \in Calls("sanitize_filepath", Labels)
                \cup {[fn |-> "filename", arg |-> [timestamp |-> t, filepath |-> f]] :
                        t \in Timestamps, f \in {None} \cup {Some(l) : l \in Labels}}
    /\ ret = None
    /\ disk = NoDisk

InitName == InitLabel /\ InitNoWriter /\ InitNoLogger

SanitizeFilepath ==
    /\ call.fn = "sanitize_filepath"
    /\ ~ret.some
    /\ ret' = Some(sanitize_filepath(call.arg))
    /\ UNCHANGED <<call, disk, renderVars, logVars>>

NameEventLog ==
    /\ call.fn = "filename"
    /\ ~ret.some
    /\ ret' = Some(filename(call.arg.timestamp, call.arg.filepath))
    /\ UNCHANGED <<call, disk, renderVars, logVars>>

NextName == SanitizeFilepath \/ NameEventLog

SpecName == InitName /\ [][NextName]_vars

----------------------------------------------------------------------------
(* config.rs: load_config and GenerateConfigArgs::run.                     *)
(* A document is the content of a file: whether it is TOML, and its table  *)
(* of keys.  name tells the texts apart.                                   *)

ConfigKeys == {"permission_mode", "extra_args", "extra_system_prompt"}

Value(type, val) == [type |-> type, val |-> val]
Doc(name, toml, table) == [name |-> name, toml |-> toml, table |-> table]

\* include_str!("../config.toml"): written as it is, and not parsed here
DEFAULT_CONFIG_TEMPLATE == Doc("config.toml", TRUE, <<>>)
\* what a write of the template that failed may leave
PartialTemplate == Doc("config.toml, cut short", FALSE, <<>>)

Docs ==
    {Doc("", TRUE, <<>>),
     Doc("permission_mode = \"plan\"", TRUE,
         "permission_mode" :> Value("string", "plan")),
     Doc("permission_mode = \"plan\" extra_args = [\"--model\", \"opus\"] extra_system_prompt = \"Be concise.\"",
         TRUE,
         "permission_mode" :> Value("string", "plan")
         @@ "extra_args" :> Value("array of strings", <<"--model", "opus">>)
         @@ "extra_system_prompt" :> Value("string", "Be concise.")),
     Doc("permision_mode = \"plan\"", TRUE,
         "permision_mode" :> Value("string", "plan")),
     Doc("permission_mode = 3", TRUE, "permission_mode" :> Value("integer", 3)),
     Doc("not valid toml [[[", FALSE, <<>>),
     Doc("existing", FALSE, <<>>)}

ResultOk(v) == [ok |-> TRUE, val |-> v, error |-> "none"]
ResultErr(e) == [ok |-> FALSE, val |-> <<>>, error |-> e]

\* Config::default()
ConfigDefault == [k \in ConfigKeys |-> None]

\* toml::from_str::<Config>: #[serde(deny_unknown_fields)], every field an
\* Option of a string or of a Vec<String>
toml_from_str(doc) ==
    IF /\ doc.toml
       /\ DOMAIN doc.table \subseteq ConfigKeys
       /\ \A k \in DOMAIN doc.table :
             doc.table[k].type = IF k = "extra_args" THEN "array of strings" ELSE "string"
    THEN ResultOk([k \in ConfigKeys |->
                     IF k \in DOMAIN doc.table THEN Some(doc.table[k].val) ELSE None])
    ELSE ResultErr("failed to parse config file")

\* A file: missing, a file that holds a document, or there but unreadable
\* (std::fs::read_to_string fails with another error than NotFound)
NoDoc == Doc("", FALSE, <<>>)
Missing == [state |-> "missing", content |-> NoDoc]
Unreadable == [state |-> "unreadable", content |-> NoDoc]
Holding(doc) == [state |-> "file", content |-> doc]

Files == {Missing, Unreadable} \cup {Holding(doc) : doc \in Docs}

\* Path::exists
exists(file) == file.state # "missing"

\* the files at the path the caller names and at the default path;
\* config_dir: dirs::config_dir() is Some
Disks ==
    {[explicit |-> e, default |-> d, config_dir |-> TRUE] : e \in Files, d \in Files}
    \cup {[explicit |-> e, default |-> Missing, config_dir |-> FALSE] : e \in Files}

\* Option<PathBuf>::None
NoPath == [some |-> FALSE, val |-> ""]

default_config_path(d) == IF d.config_dir THEN Some("default") ELSE NoPath

\* a faulty variant: a missing file at an explicit path gives the defaults
load_config_missing_is_default(path, d) ==
    LET p == IF path.some THEN path ELSE default_config_path(d)
    IN IF ~p.some THEN ResultOk(ConfigDefault)
       ELSE CASE d[p.val].state = "file" -> toml_from_str(d[p.val].content)
              [] d[p.val].state = "missing" -> ResultOk(ConfigDefault)
              [] OTHER -> ResultErr("failed to read config file")

load_config(path, d) ==
    IF path.some
    THEN IF d[path.val].state = "file"
         THEN toml_from_str(d[path.val].content)
         ELSE ResultErr("failed to read config file")
    ELSE LET p == default_config_path(d)
         IN IF ~p.some THEN ResultOk(ConfigDefault)
            ELSE CASE d[p.val].state = "file" -> toml_from_str(d[p.val].content)
                   \* Err(e) if e.kind() == NotFound
                   [] d[p.val].state = "missing" -> ResultOk(ConfigDefault)
                   [] OTHER -> ResultErr("failed to read config file")

\* a faulty variant: the file is written whether it exists or not
never_refused(file, force) == FALSE

\* if path.exists() && !self.force
already_exists(file, force) == exists(file) /\ ~force

\* the call, and the files as it finds them
ConfigCalls(d) ==
    {[fn |-> "load_config",
      arg |-> [path |-> IF given THEN Some("explicit") ELSE NoPath],
      found |-> d] : given \in BOOLEAN}
    \cup {[fn |-> "GenerateConfigArgs::run",
           arg |-> [output |-> IF given THEN Some("explicit") ELSE NoPath, force |-> f],
           found |-> d] : given \in BOOLEAN, f \in BOOLEAN}

InitDisk ==
    /\ disk \in Disks
    /\ call \in ConfigCalls(disk)
    /\ ret = None

InitConfig == InitDisk /\ InitNoWriter /\ InitNoLogger

LoadConfig ==
    /\ call.fn = "load_config"
    /\ ~ret.some
    /\ ret' = Some(load_config(call.arg.path, disk))
    /\ UNCHANGED <<call, disk, renderVars, logVars>>

\* GenerateConfigArgs::run.  create_dir_all of the parent can fail only
\* while the file is missing; a write that fails leaves the file as it was
\* (it could not be opened) or cut short; eprintln! panics when standard
\* error cannot be written.
GenerateConfig ==
    /\ call.fn = "GenerateConfigArgs::run"
    /\ ~ret.some
    /\ LET path == IF call.arg.output.some THEN call.arg.output
                   ELSE default_config_path(disk)
       IN IF ~path.some
          THEN /\ ret' = Some(ResultErr("could not determine default config directory"))
               /\ UNCHANGED disk
          ELSE IF already_exists(disk[path.val], call.arg.force)
          THEN /\ ret' = Some(ResultErr("config file already exists"))
               /\ UNCHANGED disk
          ELSE \/ /\ ~exists(disk[path.val])
                  /\ ret' = Some(ResultErr("failed to create directory"))
                  /\ UNCHANGED disk
               \/ /\ ret' = Some(ResultErr("failed to write config file"))
                  /\ \E left \in {disk[path.val], Holding(PartialTemplate)} :
                        disk' = [disk EXCEPT ![path.val] = left]
               \/ /\ disk' = [disk EXCEPT ![path.val] = Holding(DEFAULT_CONFIG_TEMPLATE)]
                  /\ ret' \in {Some(ResultOk(<<>>)),
                               Some(ResultErr("panicked: failed printing to stderr"))}
    /\ UNCHANGED <<call, renderVars, logVars>>

NextConfig == LoadConfig \/ GenerateConfig

SpecConfig == InitConfig /\ [][NextConfig]_vars

----------------------------------------------------------------------------
(* The redaction of RawClaudeEvent::fmt on its own: a temp-directory table  *)
(* and a rendered text are drawn and the fold is applied.                   *)

MaxRedactLen == 6    \* longest rendered text handed to the fold

RedactChars == {"/", "s", "t", "T"}
RenderedTexts == SeqsUpTo(RedactChars, MaxRedactLen)

\* std::env::temp_dir() and what canonicalize() makes of it: no link, no
\* canonical form, a trailing slash, a link to another directory, a link
\* /s/t -> /t/s, and a relative TMPDIR=T below /s
TempDirPairs ==
    {[raw |-> <<"/", "t">>, canonical |-> None],
     [raw |-> <<"/", "t">>, canonical |-> Some(<<"/", "t">>)],
     [raw |-> <<"/", "t", "/">>, canonical |-> Some(<<"/", "t">>)],
     [raw |-> <<"/", "t">>, canonical |-> Some(<<"/", "s", "/", "t">>)],
     [raw |-> <<"/", "s", "/", "t">>, canonical |-> Some(<<"/", "t", "/", "s">>)],
     [raw |-> <<"T">>, canonical |-> Some(<<"/", "s", "/", "T">>)]}

TempDirTables == {ClaudeEventWriterNew(p.raw, p.canonical) : p \in TempDirPairs}

InitRedaction ==
    /\ call \in {[fn |-> "redact", arg |-> [dirs |-> d, text |-> t]] :
                    d \in TempDirTables, t \in RenderedTexts}
    /\ ret = None
    /\ disk = NoDisk

InitRedact == InitRedaction /\ InitNoWriter /\ InitNoLogger

\* self.temp_dirs.iter().fold(formatted, |s, dir| s.replace(dir, "$TMPDIR"))
RedactRendered ==
    /\ call.fn = "redact"
    /\ ~ret.some
    /\ ret' = Some(Redact(call.arg.text, call.arg.dirs))
    /\ UNCHANGED <<call, disk, renderVars, logVars>>

NextRedact == RedactRendered

SpecRedact == InitRedact /\ [][NextRedact]_vars

----------------------------------------------------------------------------
(* Properties of the renderer, checked under Spec *)

Displayed == pc \in {"written", "failed"} /\ line.io = "Ok"

\* r is s without its leading run of newline characters, and nothing else
WithoutLeadingNewlines(s, r) ==
    \E k \in 0..Len(s) :
        /\ \A i \in 1..k : s[i] = NL
        /\ k < Len(s) => s[k + 1] # NL
        /\ r = SubSeq(s, k + 1, Len(s))

\* C1: the text handed to the markdown renderer for a Text block is the
\* block's text without its leading run of newline characters (and with
\* nothing else removed) when has_output is false, and the block's text
\* unchanged when has_output is true; nothing is handed over only when that
\* text is empty.
C1_TextHandedToRenderer ==
    \A i \in 1..Len(trace) :
        LET e == trace[i]
        IN e.block.kind = "Text" =>
            /\ e.handed.some /\ e.before => e.handed.val = e.block.text
            /\ e.handed.some /\ ~e.before =>
                  WithoutLeadingNewlines(e.block.text, e.handed.val)
            /\ ~e.handed.some /\ e.before => e.block.text = <<>>
            /\ ~e.handed.some /\ ~e.before =>
                  WithoutLeadingNewlines(e.block.text, <<>>)

\* both cases in one event: a first block whose leading newlines are
\* stripped while other leading white space stays possible, and a later
\* block that starts with a newline and is handed over whole
C1_Witness ==
    /\ Displayed
    /\ \E i, j \in 1..Len(trace) :
          /\ trace[i].block.kind = "Text" /\ ~trace[i].before
          /\ trace[i].block.text # <<>> /\ trace[i].block.text[1] = NL
          /\ trace[i].handed.some /\ trace[i].handed.val # trace[i].block.text
          /\ trace[j].block.kind = "Text" /\ trace[j].before
          /\ trace[j].block.text # <<>> /\ trace[j].block.text[1] = NL
          /\ trace[j].handed = Some(trace[j].block.text)

\* the line is a JSON object that carries a well-formed assistant or result event
WellFormedBlock(b) ==
    /\ b.type = "text" => b.text.some
    /\ b.type = "tool_use" => b.name.some

WellFormedEvent(j) ==
    /\ j.valid
    /\ \/ /\ j.type = "assistant"
          /\ j.message
          /\ j.content.some => \A i \in 1..Len(j.content.val) :
                                    WellFormedBlock(j.content.val[i])
       \/ /\ j.type = "result"
          /\ j.subtype = "success"
          /\ j.payload.complete

\* C2: a line that is no well-formed assistant or result event is displayed
\* as the empty fragment, the display returns no error, and has_output is
\* what it was before.
C2_MalformedLineRendersNothing ==
    Displayed /\ ~WellFormedEvent(line.json) =>
        /\ fragment = <<>>
        /\ formatted = <<>>
        /\ trace = <<>>
        /\ pc = "written"
        /\ has_output = before

\* a tool_use block without a name, displayed after output has occurred
C2_Witness ==
    /\ Displayed
    /\ line.json.type = "assistant" /\ line.json.content.some
    /\ \E i \in 1..Len(line.json.content.val) :
          ~WellFormedBlock(line.json.content.val[i])
    /\ before
    /\ fragment = <<>>

Styles == {DimOn, BoldOn, GreenOn, GreenOff, StyleOff}
IsCharacter(c) == c \notin Styles
Unstyled(s) == SelectSeq(s, IsCharacter)

\* C9: a ToolUse block named exactly Read, Write or Edit is written as
\* "> {name} {file_path}", with "?" for an absent file_path; a block of any
\* other name is written as "> {name}" even when it has a file_path; and
\* has_output is true after the block and after the event.
C9_ToolUseLine ==
    \A k \in 1..Len(trace) :
        LET e == trace[k]
            b == e.block
        IN b.kind = "ToolUse" =>
            /\ b.name \in {ToolRead, ToolWrite, ToolEdit} /\ b.file_path.some =>
                  Unstyled(e.wrote) = Prompt \o b.name \o <<SP>> \o b.file_path.val \o <<NL>>
            /\ b.name \in {ToolRead, ToolWrite, ToolEdit} /\ ~b.file_path.some =>
                  Unstyled(e.wrote) = Prompt \o b.name \o <<SP, "?", NL>>
            /\ b.name \notin {ToolRead, ToolWrite, ToolEdit} =>
                  Unstyled(e.wrote) = Prompt \o b.name \o <<NL>>
            /\ e.after
            /\ has_output

\* a tool of another name (here "read", in lower case) with a file_path
C9_Witness ==
    /\ Displayed
    /\ ~before
    /\ \E k \in 1..Len(trace) :
          /\ trace[k].block.kind = "ToolUse"
          /\ trace[k].block.name = ToolReadLower
          /\ trace[k].block.file_path.some
          /\ trace[k].wrote = Prompt \o ToolReadLower \o <<NL>>
    /\ has_output

\* C10: every ToolUse block is written as one dimmed line, whatever the
\* tool's name.
C10_ToolUseDimmed ==
    \A k \in 1..Len(trace) :
        LET w == trace[k].wrote
        IN trace[k].block.kind = "ToolUse" =>
            /\ Len(w) >= 3
            /\ w[1] = DimOn
            /\ w[Len(w) - 1] = StyleOff
            /\ w[Len(w)] = NL
            /\ \A i \in 1..(Len(w) - 1) : w[i] # NL

----------------------------------------------------------------------------
(* Properties of the logger, checked under SpecLog *)

\* the step is a call of log_event, of log_summary
IsLogEvent == op'.n = op.n + 1 /\ op'.name = "log_event"
IsLogSummary == op'.n = op.n + 1 /\ op'.name = "log_summary"

\* C3: while the event sink is open, a log_event call whose write succeeds
\* appends the line and a newline and leaves the sink open, and one whose
\* write fails disables the sink; a disabled sink is never open again, and a
\* log_event call on it leaves the event log as it is.
C3_EventSinkStateMachine ==
    [][/\ event_file = "None" => event_file' = "None"
       /\ IsLogEvent /\ event_file = "Some" =>
             \/ /\ op'.result = "ok"
                /\ event_file' = "Some"
                /\ fs'.event = Some(Content(fs.event) \o op'.line \o <<NL>>)
             \/ /\ op'.result = "write failed"
                /\ event_file' = "None"
       /\ IsLogEvent /\ event_file = "None" =>
             /\ op'.result = "disabled"
             /\ fs'.event = fs.event]_vars

\* a sink that was open, a write that failed, and a later log_event call
C3_Witness ==
    /\ env.dir = "ok" /\ env.create
    /\ event_file = "None"
    /\ op.name = "log_event" /\ op.result = "disabled"
    /\ Len(events) >= 2
    /\ fs.event.some

\* C4: when the log directory cannot be resolved or created, MergeLogger::new
\* returns a logger with both sinks disabled, every log_event and log_summary
\* call on it is a no-op, and no file is created or written.
C4_NoLogDirectoryDisablesBoth ==
    ~log_dir(env) =>
        /\ event_file = "None"
        /\ summary_path = "None"
        /\ op.result \in {"ok", "disabled"}
        /\ fs = [event |-> None, summary |-> summary0]
        /\ fs.event = None /\ fs.summary = None

\* the directory could not be created; both calls have been made
C4_Witness ==
    /\ env.dir = "uncreatable"
    /\ op.n >= 2
    /\ events # <<>>
    /\ op.name = "log_summary" /\ op.result = "disabled"

\* C5: a log_summary call never changes summary_path; with summary_path set
\* it always attempts the open, a failed open or write leaves summary_path
\* set, and a call whose open and write succeed appends its line.
C5_SummarySinkRetries ==
    [][/\ summary_path' = summary_path
       /\ IsLogSummary /\ summary_path = "Some" =>
             /\ op'.result \in {"ok", "write failed", "open failed"}
             /\ summary_path' = "Some"
             /\ op'.result = "ok" =>
                   fs'.summary = Some(Content(fs.summary) \o op'.line \o <<NL>>)
             /\ op'.result = "open failed" => fs'.summary = fs.summary]_vars

\* only log_summary was called, at least once in vain, and the last call
\* appended its line
C5_Witness ==
    /\ summary_path = "Some"
    /\ events = <<>>
    /\ op.n >= 2
    /\ Len(summaries) = 1
    /\ op.name = "log_summary" /\ op.result = "ok"

RECURSIVE JoinLines(_)
JoinLines(ls) ==
    IF ls = <<>> THEN <<>> ELSE Head(ls) \o <<NL>> \o JoinLines(Tail(ls))

CountNewlines(s) == Cardinality({i \in 1..Len(s) : s[i] = NL})

\* C6: while the event sink is open, the event log is the lines passed to
\* log_event so far, each followed by one newline, in the order of the calls.
C6_EventLogIsTheLines ==
    event_file = "Some" =>
        /\ fs.event = Some(JoinLines(events))
        /\ CountNewlines(fs.event.val) = Len(events)

\* two different lines logged, in between calls of log_summary or not
C6_Witness ==
    /\ event_file = "Some"
    /\ Len(events) >= 2
    /\ events[1] # events[2]

IsPrefixOf(s, t) == Len(s) <= Len(t) /\ SubSeq(t, 1, Len(s)) = s

\* C7: log_event leaves the summary file as it is and log_summary leaves the
\* event file as it is; a log_summary call that succeeds appends exactly its
\* line and a newline after the content the summary file had; and no step
\* removes or changes what the summary file holds.
C7_SummaryOnlyThroughLogSummary ==
    [][/\ IsLogEvent => fs'.summary = fs.summary
       /\ IsLogSummary => fs'.event = fs.event
       /\ IsLogSummary /\ op'.result = "ok" =>
             fs'.summary = Some(Content(fs.summary) \o op'.line \o <<NL>>)
       /\ IsPrefixOf(Content(fs.summary), Content(fs'.summary))
       /\ fs.summary.some => fs'.summary.some]_vars

\* the summary file of an earlier run, a log_event call, and a line appended
\* by log_summary after the earlier line
C7_Witness ==
    /\ summary0 = Some(<<"z", NL>>)
    /\ events # <<>>
    /\ op.name = "log_summary" /\ op.result = "ok"
    /\ fs.summary = Some(<<"z", NL>> \o op.line \o <<NL>>)
    /\ fs.event # None

----------------------------------------------------------------------------
(* Further properties of the renderer, checked under Spec *)

IsResultLine(j) == j.valid /\ j.type = "result"

\* C11: the display of a result line whose subtype is not success returns an
\* error to MergeArgs::run, which fails; the line is not skipped as a
\* malformed line is.
C11_UnknownSubtypeSurfaced ==
    Displayed /\ IsResultLine(line.json) /\ line.json.subtype # "success" =>
        pc = "failed"

IsSuccessLine(j) == IsResultLine(j) /\ ClaudeEventFromStr(j).ok

\* C12: the display of a successful result line is deterministic: the text
\* is the same whatever order the map model_usage yields its entries in, so
\* that any two displays of the line are the same text, and it has one usage
\* line per model.
C12_ResultRenderingDeterministic ==
    Displayed /\ IsSuccessLine(line.json) =>
        LET usage == line.json.payload.modelUsage
        IN /\ \A order \in IterationOrders(usage) :
                 formatted = ClaudeSuccessFmt(line.json.payload, order) \o <<NL>>
           /\ CountNewlines(formatted) =
                 IF usage = <<>> THEN 1 ELSE Cardinality(DOMAIN usage) + 2

----------------------------------------------------------------------------
(* Properties of the formatters, checked under SpecFmt *)

IsDigit(c) == \E i \in 1..10 : DigitChars[i] = c
DigitValue(c) == (CHOOSE i \in 1..10 : DigitChars[i] = c) - 1

\* one or more digits
IsNumeral(s) == s # <<>> /\ \A i \in 1..Len(s) : IsDigit(s[i])

RECURSIVE DecimalValue(_)
DecimalValue(s) ==
    IF s = <<>> THEN 0
    ELSE 10 * DecimalValue(SubSeq(s, 1, Len(s) - 1)) + DigitValue(s[Len(s)])

\* one or more digits, a point, and exactly `places` digits
IsDecimal(s, places) ==
    /\ Len(s) >= places + 2
    /\ s[Len(s) - places] = "."
    /\ IsNumeral(SubSeq(s, 1, Len(s) - places - 1))
    /\ IsNumeral(SubSeq(s, Len(s) - places + 1, Len(s)))

\* the number a decimal shows, counted in its last place
DecimalUnits(s, places) ==
    DecimalValue(SubSeq(s, 1, Len(s) - places - 1)) * Pow10(places)
    + DecimalValue(SubSeq(s, Len(s) - places + 1, Len(s)))

WithoutLast(s) == SubSeq(s, 1, Len(s) - 1)

\* C13: a token count below 1000 is written as the bare integer; a count
\* from 1000 and below 1000000 as a decimal with exactly one place followed
\* by k, the decimal being the count in thousands to the nearest tenth; a
\* count from 1000000 as a decimal with exactly three places followed by m,
\* the decimal being the count in millions to the nearest thousandth.  The
\* form follows the count, not the rounded decimal: 999 is "999", 1000 is
\* "1.0k", 999999 is "1000.0k" and 1000000 is "1.000m".
C13_TokensForm ==
    call.fn = "Tokens" /\ ret.some =>
        LET t == call.arg
            s == ret.val
        IN /\ t < 1000 =>
                /\ IsNumeral(s)
                /\ Len(s) > 1 => s[1] # "0"
                /\ DecimalValue(s) = t
           /\ 1000 <= t /\ t < 1000000 =>
                /\ s[Len(s)] = "k"
                /\ IsDecimal(WithoutLast(s), 1)
                /\ Abs(DecimalUnits(WithoutLast(s), 1) * 100 - t) <= 50
           /\ 1000000 <= t =>
                /\ s[Len(s)] = "m"
                /\ IsDecimal(WithoutLast(s), 3)
                /\ Abs(DecimalUnits(WithoutLast(s), 3) * 1000 - t) <= 500
           /\ t = 999 => s = <<"9", "9", "9">>
           /\ t = 1000 => s = <<"1", ".", "0", "k">>
           /\ t = 999999 => s = <<"1", "0", "0", "0", ".", "0", "k">>
           /\ t = 1000000 => s = <<"1", ".", "0", "0", "0", "m">>

\* the largest count below the second threshold, formatted in thousands
C13_Witness ==
    /\ call.fn = "Tokens"
    /\ call.arg = 999999
    /\ ret = Some(<<"1", "0", "0", "0", ".", "0", "k">>)

\* the currency rule's two shapes: a dollar sign, one or more digits, a
\* point, and four digits, or one digit and k
IsPlainCurrency(s) == s # <<>> /\ s[1] = "$" /\ IsDecimal(Tail(s), 4)
IsKiloCurrency(s) ==
    Len(s) >= 2 /\ s[1] = "$" /\ s[Len(s)] = "k" /\ IsDecimal(WithoutLast(Tail(s)), 1)

\* C14: an amount below 1000 is written as a dollar sign, one or more
\* digits, a point and exactly four digits; an amount from 1000 as a dollar
\* sign, one or more digits, a point, exactly one digit and k, the decimal
\* being the amount in thousands to the nearest tenth; for every amount,
\* negative amounts and amounts just below 1000 included.
C14_DollarsForm ==
    call.fn = "Dollars" /\ ret.some =>
        LET c == call.arg
            s == ret.val
        IN /\ c.num < 1000 * c.den => IsPlainCurrency(s)
           /\ c.num >= 1000 * c.den =>
                /\ IsKiloCurrency(s)
                /\ Abs(DecimalUnits(WithoutLast(Tail(s)), 1) * 100 * c.den - c.num)
                      <= 50 * c.den

\* the text up to the first space, and the text after it
FirstWord(s) ==
    IF \E i \in 1..Len(s) : s[i] = SP
    THEN SubSeq(s, 1, (CHOOSE i \in 1..Len(s) : s[i] = SP /\ \A k \in 1..(i - 1) : s[k] # SP) - 1)
    ELSE s

RECURSIVE Words(_)
Words(s) ==
    IF FirstWord(s) = s THEN <<s>>
    ELSE <<FirstWord(s)>> \o Words(SubSeq(s, Len(FirstWord(s)) + 2, Len(s)))

\* the digits a word starts with, and the unit after them
Count(w) == SelectSeq(w, IsDigit)
Unit(w) == SubSeq(w, Len(Count(w)) + 1, Len(w))

\* the units of a duration expression that a duration of less than 2^31
\* milliseconds has, in milliseconds, from the coarsest
UnitsOfTime ==
    << [name |-> <<"d", "a", "y">>, ms |-> 86400000, below |-> 31],
       [name |-> <<"h">>, ms |-> 3600000, below |-> 24],
       [name |-> <<"m">>, ms |-> 60000, below |-> 60],
       [name |-> <<"s">>, ms |-> 1000, below |-> 60],
       [name |-> <<"m", "s">>, ms |-> 1, below |-> 1000] >>

\* the place of a word's unit in UnitsOfTime, 0 for no unit of time; more
\* than one day is written days
UnitOf(w) ==
    LET fits == {i \in 1..Len(UnitsOfTime) :
                    \/ Unit(w) = UnitsOfTime[i].name /\ (i = 1 => DecimalValue(Count(w)) = 1)
                    \/ i = 1 /\ Unit(w) = <<"d", "a", "y", "s">> /\ DecimalValue(Count(w)) > 1}
    IN IF fits = {} THEN 0 ELSE CHOOSE i \in fits : TRUE

\* s is counts with their units, separated by single spaces, from the
\* coarsest unit to the finest, each count positive and within its unit
IsDurationExpression(s) ==
    LET ws == Words(s)
    IN \A i \in 1..Len(ws) :
          /\ Count(ws[i]) # <<>>
          /\ ws[i] = Count(ws[i]) \o Unit(ws[i])
          /\ Count(ws[i])[1] # "0"
          /\ UnitOf(ws[i]) # 0
          /\ DecimalValue(Count(ws[i])) < UnitsOfTime[UnitOf(ws[i])].below
          /\ i > 1 => UnitOf(ws[i - 1]) < UnitOf(ws[i])

RECURSIVE MillisOf(_)
MillisOf(ws) ==
    IF ws = <<>> THEN 0
    ELSE DecimalValue(Count(Head(ws))) * UnitsOfTime[UnitOf(Head(ws))].ms
         + MillisOf(Tail(ws))

\* C15: a duration of d whole milliseconds is written, for d below 1000, as
\* the integer d followed by ms; for d from 1000 and below 60000, as a
\* decimal with exactly two places followed by s, the decimal being d in
\* seconds to the nearest hundredth; for d from 60000, as a duration
\* expression of days, hours, minutes, seconds and milliseconds that adds up
\* to d.
C15_HumanTimeForm ==
    call.fn = "HumanTime" /\ ret.some =>
        LET d == call.arg
            s == ret.val
        IN /\ d < 1000 =>
                /\ Len(s) >= 3
                /\ SubSeq(s, Len(s) - 1, Len(s)) = <<"m", "s">>
                /\ IsNumeral(SubSeq(s, 1, Len(s) - 2))
                /\ Len(s) > 3 => s[1] # "0"
                /\ DecimalValue(SubSeq(s, 1, Len(s) - 2)) = d
           /\ 1000 <= d /\ d < 60000 =>
                /\ s[Len(s)] = "s"
                /\ IsDecimal(WithoutLast(s), 2)
                /\ Abs(DecimalUnits(WithoutLast(s), 2) * 10 - d) <= 5
           /\ 60000 <= d =>
                /\ IsDurationExpression(s)
                /\ MillisOf(Words(s)) = d

\* the longest duration below one minute, written in seconds
C15_Witness ==
    /\ call.fn = "HumanTime"
    /\ call.arg = 59999
    /\ ret = Some(<<"6", "0", ".", "0", "0", "s">>)

----------------------------------------------------------------------------
(* The salary of a result, checked under Spec *)

SalaryOpens == <<"(", "S", "a", "l", "a", "r", "y", ":", SP>>
SalaryCloses == <<"/", "y", "r", ")">>

\* where pat first starts in s, 0 when nowhere
FirstAt(s, pat) ==
    LET at == {i \in 1..Len(s) : IsPrefixAt(s, pat, i)}
    IN IF at = {} THEN 0 ELSE CHOOSE i \in at : \A k \in at : i <= k

\* the figure between "(Salary: " and "/yr)"
SalaryText(s) ==
    SubSeq(s, FirstAt(s, SalaryOpens) + Len(SalaryOpens), FirstAt(s, SalaryCloses) - 1)

\* C16: the salary in the display of a successful result is the total cost
\* divided by the duration in hours and multiplied by 2000, written by the
\* currency rule; when duration_ms is 0 the display does not fail and the
\* salary is left out or is a text of one of the two shapes of the currency
\* rule.
C16_SalaryDefined ==
    Displayed /\ IsSuccessLine(line.json) =>
        LET success == line.json.payload
            salary == SalaryText(formatted)
        IN /\ formatted # <<>>
           /\ success.duration_ms > 0 =>
                 /\ FirstAt(formatted, SalaryOpens) > 0
                 /\ salary = Dollars(success.total_cost_usd * 720000, success.duration_ms)
           /\ FirstAt(formatted, SalaryOpens) > 0 =>
                 IsPlainCurrency(salary) \/ IsKiloCurrency(salary)

----------------------------------------------------------------------------
(* Properties of sanitize_filepath and the event log's name, checked under  *)
(* SpecName                                                                 *)

IsSeparator(c) == c \in {"/", Backslash, SP}

\* r is s with every '/', '\' and space replaced by '_' and every other
\* character left as it is
IsSanitized(s, r) ==
    /\ Len(r) = Len(s)
    /\ \A i \in 1..Len(s) :
          /\ IsSeparator(s[i]) => r[i] = Underscore
          /\ ~IsSeparator(s[i]) => r[i] = s[i]

\* C17: sanitize_filepath replaces every '/', '\' and space by '_' and
\* leaves every other character as it is: the result has the length of the
\* input and no '/', '\' or space, a clean input is returned unchanged, the
\* result sanitized again is itself, and the empty input gives the empty
\* result.  The name of the event log is the timestamp, '_', the sanitized
\* label or "unknown" when there is no label, and ".jsonl".
C17_SanitizedLabel ==
    /\ call.fn = "sanitize_filepath" /\ ret.some =>
          LET s == call.arg
              r == ret.val
          IN /\ IsSanitized(s, r)
             /\ \A i \in 1..Len(r) : ~IsSeparator(r[i])
             /\ (\A i \in 1..Len(s) : ~IsSeparator(s[i])) => r = s
             /\ sanitize_filepath(r) = r
             /\ s = <<>> => r = <<>>
    /\ call.fn = "filename" /\ ret.some =>
          LET t == call.arg.timestamp
              label == call.arg.filepath
              name == ret.val
              middle == SubSeq(name, Len(t) + 2, Len(name) - Len(Jsonl))
          IN /\ Len(name) >= Len(t) + 1 + Len(Jsonl)
             /\ SubSeq(name, 1, Len(t)) = t
             /\ name[Len(t) + 1] = "_"
             /\ SubSeq(name, Len(name) - 5, Len(name)) = <<".", "j", "s", "o", "n", "l">>
             /\ label.some => IsSanitized(label.val, middle)
             /\ ~label.some => middle = <<"u", "n", "k", "n", "o", "w", "n">>

\* the event log of a label made of the three characters that are replaced
C17_Witness ==
    /\ call.fn = "filename"
    /\ call.arg.filepath = Some(<<"/", Backslash, SP>>)
    /\ ret.some
    /\ ret.val = call.arg.timestamp
                 \o <<"_", "_", "_", "_", ".", "j", "s", "o", "n", "l">>

----------------------------------------------------------------------------
(* Properties of load_config and GenerateConfigArgs::run, checked under     *)
(* SpecConfig                                                               *)

\* the document is not TOML, has a field Config does not have, or a field of
\* another type than Config's
Malformed(doc) ==
    \/ ~doc.toml
    \/ \E k \in DOMAIN doc.table : k \notin ConfigKeys
    \/ \E k \in DOMAIN doc.table :
          doc.table[k].type # IF k = "extra_args" THEN "array of strings" ELSE "string"

\* C18: load_config with an explicit path returns an error when the file is
\* missing or unreadable and when it is malformed; with no path it returns
\* the default Config when there is no default location or no file at it,
\* and an error when the file there is malformed or unreadable.  A file that
\* is well formed is loaded, and no file is changed.
C18_LoadConfig ==
    call.fn = "load_config" /\ ret.some =>
        LET r == ret.val
            explicit == call.found.explicit
            default == call.found.default
        IN /\ disk = call.found
           /\ call.arg.path.some =>
                /\ explicit.state \in {"missing", "unreadable"} => ~r.ok
                /\ explicit.state = "file" /\ Malformed(explicit.content) => ~r.ok
                /\ explicit.state = "file" /\ ~Malformed(explicit.content) => r.ok
           /\ ~call.arg.path.some =>
                /\ ~call.found.config_dir => r = ResultOk(ConfigDefault)
                /\ call.found.config_dir /\ default.state = "missing" =>
                      r = ResultOk(ConfigDefault)
                /\ call.found.config_dir /\ default.state = "unreadable" => ~r.ok
                /\ call.found.config_dir /\ default.state = "file"
                      /\ Malformed(default.content) => ~r.ok
                /\ call.found.config_dir /\ default.state = "file"
                      /\ ~Malformed(default.content) => r.ok

\* no path is given and the default file has a field Config does not have,
\* while the file at the explicit path is missing
C18_Witness ==
    /\ call.fn = "load_config"
    /\ ~call.arg.path.some
    /\ call.found.config_dir
    /\ call.found.default.state = "file"
    /\ call.found.default.content.toml
    /\ Malformed(call.found.default.content)
    /\ call.found.explicit.state = "missing"
    /\ ret.some /\ ~ret.val.ok

\* the path GenerateConfigArgs::run writes to, None when there is none
TargetPath == IF call.arg.output.some THEN call.arg.output ELSE default_config_path(call.found)

Generated == call.fn = "GenerateConfigArgs::run" /\ ret.some /\ TargetPath.some

\* C19 as stated: when the target path exists and force is false the call
\* returns an error and the file is left as it was; when the path does not
\* exist, or force is true, the file afterwards holds exactly the default
\* config template.
C19_GenerateConfig ==
    Generated =>
        LET was == call.found[TargetPath.val]
            now == disk[TargetPath.val]
        IN /\ exists(was) /\ ~call.arg.force => ~ret.val.ok /\ now = was
           /\ ~exists(was) \/ call.arg.force => now = Holding(DEFAULT_CONFIG_TEMPLATE)

\* C19, amended: when the target path exists and force is false the call
\* returns an error and no file is changed; when the path does not exist, or
\* force is true, and the call returns Ok, the file afterwards holds exactly
\* the default config template; when the call returns an error because the
\* directory could not be created the file is still missing, and when it
\* could not be written the file is as it was or cut short.  The other file
\* is never changed.
C19_GenerateConfigWhenWritten ==
    Generated =>
        LET was == call.found[TargetPath.val]
            now == disk[TargetPath.val]
            other == IF TargetPath.val = "explicit" THEN "default" ELSE "explicit"
        IN /\ exists(was) /\ ~call.arg.force => ~ret.val.ok /\ disk = call.found
           /\ (~exists(was) \/ call.arg.force) /\ ret.val.ok =>
                 now = Holding(DEFAULT_CONFIG_TEMPLATE)
           /\ ret.val.error = "failed to create directory" =>
                 ~exists(was) /\ now = was
           /\ ret.val.error = "failed to write config file" =>
                 now \in {was, Holding(PartialTemplate)}
           /\ disk[other] = call.found[other]
           /\ disk.config_dir = call.found.config_dir

\* force is true, the file held "existing", and it now holds the template
C19_Witness ==
    /\ Generated
    /\ call.arg.force
    /\ call.found[TargetPath.val].state = "file"
    /\ call.found[TargetPath.val].content.name = "existing"
    /\ ret.val.ok
    /\ disk[TargetPath.val] = Holding(DEFAULT_CONFIG_TEMPLATE)

----------------------------------------------------------------------------
(* has_output over a run, checked under Spec *)

\* every block of the event just displayed changed has_output as its kind
\* says, starting from the value the previous block left
BlocksInSequence ==
    Displayed /\ ClaudeEventFromStr(line.json).kind = "Assistant"
                  /\ ClaudeEventFromStr(line.json).ok =>
        /\ Len(trace) = Len(ClaudeEventFromStr(line.json).content)
        /\ \A i \in 1..Len(trace) :
              /\ trace[i].block = ClaudeEventFromStr(line.json).content[i]
              /\ trace[i].before = IF i = 1 THEN before ELSE trace[i - 1].after
              /\ trace[i].after =
                    (trace[i].before \/ BlockRendered(trace[i].block, trace[i].before))
        /\ has_output = IF trace = <<>> THEN before ELSE trace[Len(trace)].after

\* a successful result stores true; a line that is not an event stores nothing
ResultAndSkipped ==
    Displayed =>
        LET event == ClaudeEventFromStr(line.json)
        IN /\ event.ok /\ event.kind = "Result" => has_output
           /\ ~event.ok => has_output = before

\* C20: over the lines one ClaudeEventWriter displays, has_output starts
\* false, never goes from true back to false, and is true exactly when some
\* earlier block was a Text block non-empty after stripping, a ToolUse block
\* or a successful Result; Text blocks empty after stripping, Unknown blocks
\* and skipped lines leave it unchanged, and each block of an Assistant
\* event starts from the value the block before it left.
C20_HasOutput ==
    /\ ~has_output
    /\ [][has_output => has_output']_vars
    /\ [][pc = "match" /\ line.io = "Err" => has_output' = has_output]_vars
    /\ [](has_output = rendered)
    /\ [](Displayed /\ before => has_output)
    /\ []BlocksInSequence
    /\ []ResultAndSkipped

\* an Assistant event whose first block is a Text block of newlines only,
\* displayed before anything was rendered, and whose second block is
\* rendered: has_output is stored by the second block and not by the first
C20_Witness ==
    /\ Displayed
    /\ Len(trace) = 2
    /\ trace[1].block.kind = "Text"
    /\ trace[1].block.text # <<>>
    /\ ~trace[1].before /\ ~trace[1].after
    /\ ~trace[2].before /\ trace[2].after
    /\ has_output

----------------------------------------------------------------------------
(* The driver and the logger, checked under Spec *)

\* C21: every line read from the subprocess is first handed to log_event,
\* then rendered and written to standard error, and a Result line is handed
\* to log_summary as well; so once a line has been through its arm of the
\* loop, parseable or not, log_event has been called at least once, and once
\* a successful Result was displayed so has log_summary.
C21_LoggedThenRendered ==
    Displayed =>
        /\ events # <<>>
        /\ ClaudeEventFromStr(line.json).ok /\ ClaudeEventFromStr(line.json).kind = "Result"
              => op.name = "log_summary"

----------------------------------------------------------------------------
(* The two sinks of MergeLogger, checked under SpecLog *)

SummaryFailed == op.name = "log_summary" /\ op.result \in {"open failed", "write failed"}

\* C22: the two sinks fail independently.  Where the log directory exists
\* summary_path is set, whether or not the event file could be created and
\* whatever became of it since; a log_event call, failed or not, leaves
\* summary_path and the summary file as they were, and a failed one clears
\* event_file; a log_summary call, failed or not, leaves event_file and the
\* event log as they were.  So with the event sink disabled log_summary is
\* never a no-op and appends its line when its open and write succeed, and
\* right after a failed log_summary a log_event on a live event file is no
\* no-op and appends its line when its write succeeds.
C22_SinksFailIndependently ==
    /\ [](log_dir(env) => summary_path = "Some")
    /\ [][op'.name = "log_event" /\ op'.n = op.n + 1 =>
             /\ summary_path' = summary_path
             /\ fs'.summary = fs.summary
             /\ summaries' = summaries
             /\ op'.result = "write failed" => event_file' = "None"]_vars
    /\ [][op'.name = "log_summary" /\ op'.n = op.n + 1 =>
             /\ event_file' = event_file
             /\ fs'.event = fs.event
             /\ events' = events]_vars
    /\ [][op'.name = "log_summary" /\ op'.n = op.n + 1
             /\ log_dir(env) /\ event_file = "None" =>
             /\ op'.result # "disabled"
             /\ op'.result = "ok" =>
                   fs'.summary = Some(Content(fs.summary) \o op'.line \o <<NL>>)]_vars
    /\ [][op'.name = "log_event" /\ op'.n = op.n + 1
             /\ SummaryFailed /\ event_file = "Some" =>
             /\ op'.result # "disabled"
             /\ op'.result = "ok" =>
                   fs'.event = Some(Content(fs.event) \o op'.line \o <<NL>>)]_vars

\* the event file was created and a write to it failed; after that a
\* log_summary call has appended its line to the summary file
C22_Witness ==
    /\ env.create /\ log_dir(env)
    /\ event_file = "None"
    /\ op.name = "log_summary" /\ op.result = "ok"
    /\ summary_path = "Some"
    /\ summaries # <<>>
    /\ Len(Content(fs.summary)) >= Len(op.line) + 1
    /\ SubSeq(Content(fs.summary), Len(Content(fs.summary)) - Len(op.line),
              Len(Content(fs.summary))) = op.line \o <<NL>>

----------------------------------------------------------------------------
(* The redaction as one pass, checked under SpecRedact *)

\* the entries of the table that match s at position i
MatchesAt(s, dirs, i) == {d \in 1..Len(dirs) : IsPrefixAt(s, dirs[d], i)}

\* one pass from position i, left to right: where an entry matches, the
\* longest one that does is replaced by the placeholder and the pass goes on
\* after it; any other character is copied
RECURSIVE SinglePass(_, _, _)
SinglePass(s, dirs, i) ==
    IF i > Len(s) THEN <<>>
    ELSE IF MatchesAt(s, dirs, i) = {} THEN <<s[i]>> \o SinglePass(s, dirs, i + 1)
    ELSE LET d == CHOOSE m \in MatchesAt(s, dirs, i) :
                     \A n \in MatchesAt(s, dirs, i) : Len(dirs[m]) >= Len(dirs[n])
         IN Placeholder \o SinglePass(s, dirs, i + Len(dirs[d]))

\* C23: for every temp-directory table and rendered text, replacing one
\* entry after another gives what a single left-to-right pass gives that
\* replaces each occurrence of an entry, the longest match first, by
\* $TMPDIR; so no placeholder written for one entry is changed for another.
C23_FoldIsSinglePass ==
    call.fn = "redact" /\ ret.some =>
        ret.val = SinglePass(call.arg.text, call.arg.dirs, 1)

----------------------------------------------------------------------------
(* What ends a run with an error, checked under Spec *)

\* the write of the rendered fragment to standard error failed
StderrWriteFailed == pc = "failed" /\ line.io = "Ok" /\ fragment # <<>>

\* child.wait_checked() failed, after the pipe was closed
WaitFailed == pc = "failed" /\ line = NoLine

\* the line in hand is a result object that ClaudeResult does not accept
ResultSchemaViolated ==
    /\ line.io = "Ok"
    /\ line.json.valid /\ line.json.type = "result"
    /\ ~ClaudeEventFromStr(line.json).ok

\* the line in hand cannot be displayed: it was not read, or is no event
Undisplayable == line.io = "Err" \/ (line.io = "Ok" /\ ~ClaudeEventFromStr(line.json).ok)

====
